---- MODULE Spec2Model ----
(***************************************************************************)
(* Model of the heatmap pipeline of grad_cam: generateGradCAM (saliency    *)
(* synthesis, normalization, colour mapping, ImageData conversion), of     *)
(* runInference and the component state around it, and of the debug log    *)
(* of useDebugInfo.                                                        *)
(*                                                                         *)
(* Spec follows one call of generateGradCAM step by step; InferenceSpec    *)
(* follows the requests of a component (generateGradCAM is then one        *)
(* synchronous call); DebugSpec follows the debug log.                     *)
(*                                                                         *)
(* The repository holds two copies of generateGradCAM: the one of          *)
(* src/App.tsx (component "App") and the one of the refactored App         *)
(* component that uses the hooks (component "AppRefactored").  Both are    *)
(* modelled; a call picks the component whose copy runs.                   *)
(*                                                                         *)
(* JavaScript numbers are modelled in fixed point: the integer n stands    *)
(* for the number n / Scale.  NaN and the two infinities are sentinels     *)
(* outside the range of every finite value of the model.  The 224 x 224    *)
(* working grid is scaled down to TargetSize x TargetSize; the centre 112  *)
(* and the fallback radius 80 keep their ratio to 224.                     *)
(***************************************************************************)
EXTENDS Integers, Sequences, FiniteSets

\* ------------------------------------------------------------------------
\* Bounds of the model
\* ------------------------------------------------------------------------

\* side of the scaled-down target grid (224 in the source)
TargetSize == 5

\* side of a tensor whose shape is not the expected one ([1,100,100,3])
SmallSize == 3

\* number of runInference calls of a run
MaxRequests == 2

\* largest maxItems a useDebugInfo is created with
MaxMaxItems == 3

\* number of entries after which no further message is added to the log
MaxLogLength == 4

\* number of model loads (uploads and preset loads) of a run
MaxLoads == 2

\* ------------------------------------------------------------------------
\* Numbers
\* ------------------------------------------------------------------------

\* fixed-point unit: the integer n stands for n / Scale
Scale == 100000

NaN == 0 - (2 * 1000 * 1000 * 1000)

PosInfinity == 2 * 1000 * 1000 * 1000

NegInfinity == 0 - (2 * 1000 * 1000 * 1000) + 1

IsFinite(x) == x # NaN /\ x # PosInfinity /\ x # NegInfinity

\* the decimal literal n/d of the source in fixed point
Dec(n, d) == (n * Scale) \div d

\* a + b
FAdd(a, b) ==
    IF a = NaN \/ b = NaN THEN NaN
    ELSE IF ~IsFinite(a) /\ ~IsFinite(b) THEN (IF a = b THEN a ELSE NaN)
    ELSE IF ~IsFinite(a) THEN a
    ELSE IF ~IsFinite(b) THEN b
    ELSE a + b

\* -a
FNeg(a) ==
    IF a = NaN THEN NaN
    ELSE IF a = PosInfinity THEN NegInfinity
    ELSE IF a = NegInfinity THEN PosInfinity
    ELSE 0 - a

\* a - b
FSub(a, b) == FAdd(a, FNeg(b))

Sign(a) == IF a = 0 THEN 0 ELSE IF a > 0 THEN 1 ELSE 0 - 1

Abs(a) == IF a < 0 THEN 0 - a ELSE a

\* product of two finite non-negative fixed-point numbers, without
\* leaving 32 bits: a * b / Scale, b split in thousands
MulPos(a, b) == (a * (b \div 1000)) \div (Scale \div 1000) + (a * (b % 1000)) \div Scale

\* a * b
FMul(a, b) ==
    IF a = NaN \/ b = NaN THEN NaN
    ELSE IF ~IsFinite(a) \/ ~IsFinite(b)
         THEN (IF a = 0 \/ b = 0 THEN NaN
               ELSE IF Sign(a) * Sign(b) > 0 THEN PosInfinity ELSE NegInfinity)
    ELSE Sign(a) * Sign(b) * MulPos(Abs(a), Abs(b))

\* quotient of two finite positive fixed-point numbers, by long division
DivPos(a, b) == ((a * 1000) \div b) * (Scale \div 1000) + (((a * 1000) % b) * (Scale \div 1000)) \div b

\* a / b: 0/0 is NaN, x/0 is an infinity
FDiv(a, b) ==
    IF a = NaN \/ b = NaN THEN NaN
    ELSE IF ~IsFinite(a) /\ ~IsFinite(b) THEN NaN
    ELSE IF ~IsFinite(b) THEN 0
    ELSE IF b = 0 THEN (IF a = 0 THEN NaN
                        ELSE IF a > 0 THEN PosInfinity ELSE NegInfinity)
    ELSE IF ~IsFinite(a) THEN (IF Sign(a) * Sign(b) > 0 THEN PosInfinity ELSE NegInfinity)
    ELSE Sign(a) * Sign(b) * DivPos(Abs(a), Abs(b))

\* x * n / d for the integer ratio n/d of a literal of the source
MulRat(x, n, d) ==
    IF x = NaN THEN NaN
    ELSE IF ~IsFinite(x) THEN x
    ELSE Sign(x) * ((Abs(x) * n) \div d)

\* Math.max(a, b): NaN if either is NaN
MathMax(a, b) == IF a = NaN \/ b = NaN THEN NaN ELSE IF a >= b THEN a ELSE b

\* Math.min(a, b): NaN if either is NaN
MathMin(a, b) == IF a = NaN \/ b = NaN THEN NaN ELSE IF a <= b THEN a ELSE b

\* Math.max(...values): -Infinity of no value, NaN if one is NaN
MathMaxOf(S) ==
    IF S = {} THEN NegInfinity
    ELSE IF NaN \in S THEN NaN
    ELSE CHOOSE m \in S : \A v \in S : v <= m

\* Math.min(...values): Infinity of no value, NaN if one is NaN
MathMinOf(S) ==
    IF S = {} THEN PosInfinity
    ELSE IF NaN \in S THEN NaN
    ELSE CHOOSE m \in S : \A v \in S : m <= v

\* Math.round(x) of a fixed-point x, as a whole number (NaN stays NaN)
MathRound(x) ==
    IF ~IsFinite(x) THEN x
    ELSE (2 * x + Scale) \div (2 * Scale)

RECURSIVE SqrtSearch(_, _, _)
\* largest r in lo..hi with r * r <= n
SqrtSearch(n, lo, hi) ==
    IF lo >= hi THEN lo
    ELSE LET mid == (lo + hi + 1) \div 2
         IN  IF mid * mid <= n THEN SqrtSearch(n, mid, hi)
             ELSE SqrtSearch(n, lo, mid - 1)

\* Math.sqrt(d2) of a whole number d2, in fixed point (three decimals)
MathSqrt(d2) == SqrtSearch(d2 * 1000000, 0, 40000) * (Scale \div 1000)

\* ------------------------------------------------------------------------
\* Tensors and grids
\* ------------------------------------------------------------------------

\* the coordinates <<y, x>> of a height x width grid
Grid(height, width) == (0 .. height - 1) \X (0 .. width - 1)

Range(f) == {f[i] : i \in DOMAIN f}

\* no map, no tensor data
NoMap == [p \in {} |-> 0]

Min2(a, b) == IF a <= b THEN a ELSE b

\* ------------------------------------------------------------------------
\* generateGradCAM of component App: first tf.tidy, the raw heatmap
\* ------------------------------------------------------------------------

\* inputTensor.squeeze([0]) throws unless the batch dimension is 1
CanSqueeze(tensor) == tensor.shape[1] = 1

\* Math.max(...predictions), then Math.max(0.3, maxConfidence * 2)
ConfidenceBoost(preds) ==
    LET maxConfidence == MathMaxOf(Range(preds))
    IN  MathMax(Dec(3, 10), MulRat(maxConfidence, 2, 1))

\* tf.mean(squeezed, 2): per-pixel mean of the three channels
Grayscale(tensor) ==
    [p \in DOMAIN tensor.data |->
        MulRat(tensor.data[p][1] + tensor.data[p][2] + tensor.data[p][3], 1, 3)]

\* tf.div(grayscale, tf.max(grayscale))
NormalizedLuminance(tensor) ==
    LET grayscale == Grayscale(tensor)
        maxGray == MathMaxOf(Range(grayscale))
    IN  [p \in DOMAIN grayscale |-> FDiv(grayscale[p], maxGray)]

\* the weight of the centre mask at <<y, x>>: linear falloff to 0 at radius
CenterWeight(height, width, y, x) ==
    LET centerY == height \div 2
        centerX == width \div 2
        radius == (Min2(height, width) * Scale) \div 3
        distance == MathSqrt((y - centerY) * (y - centerY) + (x - centerX) * (x - centerX))
    IN  MathMax(0, FSub(Scale, FDiv(distance, radius)))

\* centerMask.set(weight * confidenceBoost, y, x) for every y, x
CenterMask(height, width, boost) ==
    [p \in Grid(height, width) |-> FMul(CenterWeight(height, width, p[1], p[2]), boost)]

\* tf.mul(normalized, centerWeights)
Heatmap(tensor, boost) ==
    LET normalized == NormalizedLuminance(tensor)
        centerWeights == CenterMask(tensor.shape[2], tensor.shape[3], boost)
    IN  [p \in DOMAIN normalized |-> FMul(normalized[p], centerWeights[p])]

\* ------------------------------------------------------------------------
\* Second tf.tidy: normalization, or the fixed pattern of a flat heatmap
\* ------------------------------------------------------------------------

\* 80 px of the 224 px grid, on the scaled-down grid
FallbackRadius == (80 * TargetSize * Scale) \div 224

\* value = Math.max(0, 1 - centerDist / 80) around (112, 112)
FixedPattern ==
    [p \in Grid(TargetSize, TargetSize) |->
        LET c == TargetSize \div 2
            centerDist == MathSqrt((p[1] - c) * (p[1] - c) + (p[2] - c) * (p[2] - c))
        IN  MathMax(0, FSub(Scale, FDiv(centerDist, FallbackRadius)))]

\* the source coordinate of output index i, in fixed point (scale in / out)
SourceCoord(i, inSize, outSize) == (i * inSize * Scale) \div outSize

\* tf.image.resizeBilinear(map, [outH, outW]) (alignCorners false)
ResizeBilinear(map, inH, inW, outH, outW) ==
    [p \in Grid(outH, outW) |->
        LET sy == SourceCoord(p[1], inH, outH)
            sx == SourceCoord(p[2], inW, outW)
            top == sy \div Scale
            left == sx \div Scale
            bottom == Min2(inH - 1, top + (IF sy % Scale = 0 THEN 0 ELSE 1))
            right == Min2(inW - 1, left + (IF sx % Scale = 0 THEN 0 ELSE 1))
            yFrac == sy % Scale
            xFrac == sx % Scale
            topVal == FAdd(map[<<top, left>>],
                           FMul(FSub(map[<<top, right>>], map[<<top, left>>]), xFrac))
            botVal == FAdd(map[<<bottom, left>>],
                           FMul(FSub(map[<<bottom, right>>], map[<<bottom, left>>]), xFrac))
        IN  FAdd(topVal, FMul(FSub(botVal, topVal), yFrac))]

\* min, max and range of heatmap.dataSync()
HeatmapMin(map) == MathMinOf(Range(map))

HeatmapMax(map) == MathMaxOf(Range(map))

HeatmapRange(map) == FSub(HeatmapMax(map), HeatmapMin(map))

\* a normalization that gives every pixel the same value
FlatNormalization(map, height, width) == [p \in Grid(TargetSize, TargetSize) |-> 0]

\* the normalized heatmap: (resized - min) / range, or the fixed pattern
NormalizedHeatmap(map, height, width) ==
    IF HeatmapRange(map) = 0
    THEN FixedPattern
    ELSE LET resized == ResizeBilinear(map, height, width, TargetSize, TargetSize)
         IN  [p \in DOMAIN resized |->
                FDiv(FSub(resized[p], HeatmapMin(map)), HeatmapRange(map))]

\* ------------------------------------------------------------------------
\* Third tf.tidy and the ImageData loop: the colour mapping
\* ------------------------------------------------------------------------

\* tf.clipByValue(x, lo, hi)
ClipByValue(x, lo, hi) ==
    IF x = NaN THEN NaN ELSE IF x > hi THEN hi ELSE IF x < lo THEN lo ELSE x

\* r, g, b of tf.stack([r, g, b], 2) at a pixel of value v
ColoredHeatmap(v) ==
    << ClipByValue(MulRat(FSub(v, Dec(3, 10)), 5, 2), 0, Scale),
       ClipByValue(MulRat(v, 3, 2), 0, Scale),
       ClipByValue(FSub(Scale, MulRat(v, 2, 1)), 0, Scale) >>

\* coloredHeatmap.mul(255).dataSync()
ColorArray(rgb) == [i \in 1 .. 3 |-> MulRat(rgb[i], 255, 1)]

\* Math.round(Math.min(255, Math.max(0, c * n / d)))
RoundByte(c, n, d) == MathRound(MathMin(255 * Scale, MathMax(0, MulRat(c, n, d))))

\* the store into imageData.data, a Uint8ClampedArray: NaN becomes 0
ToUint8Clamped(x) ==
    IF x = NaN THEN 0 ELSE IF x < 0 THEN 0 ELSE IF x > 255 THEN 255 ELSE x

\* a fully opaque alpha
AlphaOpaque(r, g, b) == 255

\* the alpha written at i * 4 + 3
AlphaValue(r, g, b) == 200

\* the four bytes written for a pixel of normalized value v
PixelBytes(v) ==
    LET colorArray == ColorArray(ColoredHeatmap(v))
        r == RoundByte(colorArray[1], 6, 5)
        g == RoundByte(colorArray[2], 1, 1)
        b == RoundByte(colorArray[3], 4, 5)
    IN  << ToUint8Clamped(r), ToUint8Clamped(g), ToUint8Clamped(b),
           ToUint8Clamped(AlphaValue(r, g, b)) >>

\* the ImageData of a normalized heatmap
ToImageData(values) == [p \in DOMAIN values |-> PixelBytes(values[p])]

\* ------------------------------------------------------------------------
\* generateGradCAM of component AppRefactored, where it differs
\* ------------------------------------------------------------------------

\* if (!inputTensor || predictions.length === 0) throw
ValidParameters(preds) == Len(preds) # 0

\* Math.max(0.3, Math.min(maxConfidence * 2, 1.0))
ConfidenceBoostRefactored(preds) ==
    LET maxConfidence == MathMaxOf(Range(preds))
    IN  MathMax(Dec(3, 10), MathMin(MulRat(maxConfidence, 2, 1), Scale))

RECURSIVE ExpSeries(_, _, _, _)
\* the terms n .. 12 of the series of exp(-f), term being the term n - 1
ExpSeries(f, n, term, sum) ==
    IF n > 12 THEN sum
    ELSE LET next == MulPos(term, f) \div n
         IN  ExpSeries(f, n + 1, next, IF n % 2 = 1 THEN sum - next ELSE sum + next)

RECURSIVE ExpWhole(_)
\* exp(-k) of a whole number k
ExpWhole(k) == IF k = 0 THEN Scale ELSE MulPos(ExpWhole(k - 1), (36788 * (Scale \div 1000)) \div 100)

\* Math.exp(x) of an x <= 0
MathExp(x) ==
    IF x = NaN THEN NaN
    ELSE IF x = NegInfinity THEN 0
    ELSE MulPos(ExpWhole((0 - x) \div Scale), ExpSeries((0 - x) % Scale, 1, Scale, Scale))

\* Math.exp(-(distance ** 2) / (2 * (radius / 2) ** 2)) at <<y, x>>
GaussianWeight(height, width, y, x) ==
    LET centerY == height \div 2
        centerX == width \div 2
        radius == (Min2(height, width) * Scale) \div 3
        distance == MathSqrt((y - centerY) * (y - centerY) + (x - centerX) * (x - centerX))
        halfRadius == MulRat(radius, 1, 2)
    IN  MathExp(FNeg(FDiv(FMul(distance, distance),
                          MulRat(FMul(halfRadius, halfRadius), 2, 1))))

\* centerMask.set(weight, y, x), weight the Gaussian times confidenceBoost
CenterMaskRefactored(height, width, boost) ==
    [p \in Grid(height, width) |-> FMul(GaussianWeight(height, width, p[1], p[2]), boost)]

\* tf.mul(normalized, centerWeights)
HeatmapRefactored(tensor, boost) ==
    LET normalized == NormalizedLuminance(tensor)
        centerWeights == CenterMaskRefactored(tensor.shape[2], tensor.shape[3], boost)
    IN  [p \in DOMAIN normalized |-> FMul(normalized[p], centerWeights[p])]

\* r, g, b of tf.stack([r, g, b], 2) at a pixel of value v
ColoredHeatmapRefactored(v) ==
    << ClipByValue(MulRat(FSub(v, Dec(2, 10)), 2, 1), 0, Scale),
       ClipByValue(MulRat(v, 9, 5), 0, Scale),
       ClipByValue(FSub(Dec(12, 10), MulRat(v, 2, 1)), 0, Scale) >>

\* Math.round(200 * Math.min(1, (r + g + b) / 400))
AlphaValueRefactored(r, g, b) ==
    IF r = NaN \/ g = NaN \/ b = NaN THEN NaN
    ELSE MathRound(MulRat(MathMin(Scale, ((r + g + b) * Scale) \div 400), 200, 1))

\* the four bytes written for a pixel of normalized value v
PixelBytesRefactored(v) ==
    LET colorArray == ColorArray(ColoredHeatmapRefactored(v))
        r == RoundByte(colorArray[1], 13, 10)
        g == RoundByte(colorArray[2], 11, 10)
        b == RoundByte(colorArray[3], 9, 10)
    IN  << ToUint8Clamped(r), ToUint8Clamped(g), ToUint8Clamped(b),
           ToUint8Clamped(AlphaValueRefactored(r, g, b)) >>

\* the ImageData of a normalized heatmap
ToImageDataRefactored(values) ==
    [p \in DOMAIN values |-> PixelBytesRefactored(values[p])]

\* 50 px of the 224 px grid, on the scaled-down grid
ErrorCircleRadius == (50 * TargetSize * Scale) \div 224

\* the error indicator of the catch block: a red disc around the centre
FallbackImageData ==
    [p \in Grid(TargetSize, TargetSize) |->
        LET c == TargetSize \div 2
            distance == MathSqrt((p[2] - c) * (p[2] - c) + (p[1] - c) * (p[1] - c))
        IN  IF distance < ErrorCircleRadius THEN <<255, 0, 0, 100>> ELSE <<0, 0, 0, 0>>]

\* ------------------------------------------------------------------------
\* Inputs of a call
\* ------------------------------------------------------------------------

Black == <<0, 0, 0>>

Gray == <<Scale \div 2, Scale \div 2, Scale \div 2>>

White == <<Scale, Scale, Scale>>

Red == <<Scale, 0, 0>>

\* a solid-colour image
Uniform(height, width, colour) == [p \in Grid(height, width) |-> colour]

\* black but for a white pixel in the corner <<0, 0>>
CornerOnly(height, width) ==
    [p \in Grid(height, width) |-> IF p = <<0, 0>> THEN White ELSE Black]

\* black but for a white pixel in the centre
CentreSpot(height, width) ==
    [p \in Grid(height, width) |->
        IF p = <<height \div 2, width \div 2>> THEN White ELSE Black]

\* gray levels rising from left to right
Ramp(height, width) ==
    [p \in Grid(height, width) |->
        LET level == ((p[2] + 1) * Scale) \div width IN <<level, level, level>>]

ImagesOf(height, width) ==
    {Uniform(height, width, c) : c \in {Black, Gray, White, Red}}
        \cup {CornerOnly(height, width), CentreSpot(height, width), Ramp(height, width)}

\* the shapes [batch, height, width, 3] a caller can pass: the expected
\* one, a smaller image, a batch of two
InputShapes ==
    { <<1, TargetSize, TargetSize, 3>>,
      <<1, SmallSize, SmallSize, 3>>,
      <<2, TargetSize, TargetSize, 3>> }

InputTensors ==
    UNION { { [shape |-> s, data |-> d] : d \in ImagesOf(s[2], s[3]) } : s \in InputShapes }

\* the probability vectors a caller can pass (predictionData)
ProbabilityVectors ==
    { <<>>,
      <<0, 0, 0>>,
      <<Dec(1, 10), Dec(1, 20), Dec(1, 20)>>,
      <<Dec(3, 10), Dec(3, 10), Dec(4, 10)>>,
      <<Dec(2, 10), Dec(6, 10), Dec(2, 10)>>,
      <<Dec(9, 10), Dec(1, 20), Dec(1, 20)>> }

Components == {"App", "AppRefactored"}

\* ------------------------------------------------------------------------
\* State
\* ------------------------------------------------------------------------

VARIABLES
    component,          \* the component whose generateGradCAM runs
    pc,                 \* position of the call: idle, tidy1, tidy2, tidy3
    inputTensor,        \* argument inputTensor
    predictions,        \* argument predictions
    confidenceBoost,    \* confidenceBoost of the first tidy
    heatmap,            \* const heatmap
    normalizedHeatmap,  \* const normalizedHeatmap
    result              \* the value returned by the call

\* the state of the component around a call: React state, the inference
\* requests, the tensors alive in the backend, the result canvas, the debug log
VARIABLES
    modelState,         \* useState<ModelState>: model, isLoaded, error
    selectedImage,      \* useState: the image shown, "null" when none
    isInferring,        \* useState(false)
    predictionsState,   \* useState<JankenPrediction[]>: the stored predictions
    gradcamData,        \* useState<ImageData | null>: the stored heatmap
    requests,           \* the runInference calls made so far, by number
    liveTensors,        \* tensors created and not disposed: <<request, name>>
    canvas,             \* what drawHeatmap last put on the result canvas
    maxItems,           \* parameter of useDebugInfo
    debugInfo           \* useState<string[]> of useDebugInfo

\* the model loads of the component
VARIABLES
    loads,              \* the handleModelUpload and handlePresetModelLoad calls, by number
    liveModels,         \* models created and not disposed, by the load that made them
    modelFrom           \* the load whose outcome modelState holds (0: none)

\* the variables of one call of generateGradCAM
gradcamVars == <<pc, inputTensor, predictions, confidenceBoost, heatmap,
                 normalizedHeatmap, result>>

\* the variables of the component around the call
inferenceVars == <<modelState, selectedImage, isInferring, predictionsState,
                   gradcamData, requests, liveTensors, canvas>>

\* the variables of useDebugInfo
debugVars == <<maxItems, debugInfo>>

\* the variables of the model loads
loadVars == <<loads, liveModels, modelFrom>>

vars == <<component, pc, inputTensor, predictions, confidenceBoost, heatmap,
          normalizedHeatmap, result, modelState, selectedImage, isInferring,
          predictionsState, gradcamData, requests, liveTensors, canvas,
          maxItems, debugInfo, loads, liveModels, modelFrom>>

NoTensor == [shape |-> <<0, 0, 0, 0>>, data |-> NoMap]

NoResult == [kind |-> "none", data |-> NoMap]

NullResult == [kind |-> "null", data |-> NoMap]

\* what the catch block returns: null, or in AppRefactored the error
\* indicator when a canvas context is to be had
CatchResult(c, ctxOk) ==
    IF c = "AppRefactored" /\ ctxOk
    THEN [kind |-> "fallbackImageData", data |-> FallbackImageData]
    ELSE NullResult

\* useState<ModelState>({ model: null, isLoaded: false, error: null })
NoModelState == [model |-> "null", isLoaded |-> FALSE, error |-> "null"]

\* useState<JankenPrediction[]>([]); req is the request that stored the value
NoPredictions == [req |-> 0, results |-> <<>>]

\* useState<ImageData | null>(null); req is the request that stored the value
NullGradcam == [req |-> 0, kind |-> "null", data |-> NoMap]

\* the result canvas before any drawHeatmap: req and kind tell the heatmap
\* on it, draws the drawImage calls that made its content
BlankCanvas ==
    [req |-> 0, kind |-> "none", width |-> 0, height |-> 0, draws |-> <<>>,
     globalAlpha |-> Scale]

\* a runInference call that ended before the latest one was made: its
\* locals are gone
Forgotten ==
    [pc |-> "forgotten", image |-> "null", predictCalls |-> 0,
     predictionResult |-> <<>>, predictionData |-> <<>>, stages |-> <<>>,
     returned |-> "none", confidenceBoost |-> 0, error |-> "none", alert |-> "none"]

\* a runInference call that has not been made yet
NotStarted ==
    [pc |-> "notStarted", image |-> "null", predictCalls |-> 0,
     predictionResult |-> <<>>, predictionData |-> <<>>, stages |-> <<>>,
     returned |-> "none", confidenceBoost |-> 0, error |-> "none", alert |-> "none"]

\* the component after mounting
InferenceIdle ==
    /\ modelState = NoModelState
    /\ selectedImage = "null"
    /\ isInferring = FALSE
    /\ predictionsState = NoPredictions
    /\ gradcamData = NullGradcam
    /\ requests = [r \in 1 .. MaxRequests |-> NotStarted]
    /\ liveTensors = {}
    /\ canvas = BlankCanvas

\* a load that has not been asked for yet
NotRequested ==
    [pc |-> "notRequested", kind |-> "none", hasFallbackPath |-> FALSE,
     fetches |-> <<>>, publicError |-> "none", fallbackError |-> "none",
     error |-> "none"]

\* no model load has been asked for
LoadIdle ==
    /\ loads = [l \in 1 .. MaxLoads |-> NotRequested]
    /\ liveModels = {}
    /\ modelFrom = 0

\* useDebugInfo(maxItems: number = 10)
DefaultMaxItems == 10

\* useDebugInfo() after mounting
DebugIdle ==
    /\ maxItems = DefaultMaxItems
    /\ debugInfo = <<>>

Init ==
    /\ component = "App"
    /\ pc = "idle"
    /\ inputTensor = NoTensor
    /\ predictions = <<>>
    /\ confidenceBoost = 0
    /\ heatmap = NoMap
    /\ normalizedHeatmap = NoMap
    /\ result = NoResult
    /\ InferenceIdle
    /\ DebugIdle
    /\ LoadIdle

\* generateGradCAM(inputTensor, predictions) is entered
Call(c, tensor, preds) ==
    /\ pc = "idle"
    /\ component' = c
    /\ inputTensor' = tensor
    /\ predictions' = preds
    /\ confidenceBoost' = 0
    /\ heatmap' = NoMap
    /\ normalizedHeatmap' = NoMap
    /\ result' = NoResult
    /\ pc' = "tidy1"
    /\ UNCHANGED <<inferenceVars, debugVars, loadVars>>

\* the parameter check of AppRefactored throws: catch
CatchInvalidParameters(ctxOk) ==
    /\ pc = "tidy1"
    /\ component = "AppRefactored"
    /\ ~ValidParameters(predictions)
    /\ result' = CatchResult(component, ctxOk)
    /\ pc' = "idle"
    /\ UNCHANGED <<component, inputTensor, predictions, confidenceBoost, heatmap,
                   normalizedHeatmap>>
    /\ UNCHANGED <<inferenceVars, debugVars, loadVars>>

\* the parameter check passes (App has none)
ParametersPass == component = "App" \/ ValidParameters(predictions)

\* const heatmap = tf.tidy(...)
TidyHeatmap ==
    /\ pc = "tidy1"
    /\ ParametersPass
    /\ CanSqueeze(inputTensor)
    /\ confidenceBoost' =
           (IF component = "App" THEN ConfidenceBoost(predictions)
            ELSE ConfidenceBoostRefactored(predictions))
    /\ heatmap' =
           (IF component = "App"
            THEN Heatmap(inputTensor, ConfidenceBoost(predictions))
            ELSE HeatmapRefactored(inputTensor, ConfidenceBoostRefactored(predictions)))
    /\ pc' = "tidy2"
    /\ UNCHANGED <<component, inputTensor, predictions, normalizedHeatmap, result>>
    /\ UNCHANGED <<inferenceVars, debugVars, loadVars>>

\* squeeze throws in the first tidy: catch
CatchSqueeze(ctxOk) ==
    /\ pc = "tidy1"
    /\ ParametersPass
    /\ ~CanSqueeze(inputTensor)
    /\ result' = CatchResult(component, ctxOk)
    /\ pc' = "idle"
    /\ UNCHANGED <<component, inputTensor, predictions, confidenceBoost, heatmap,
                   normalizedHeatmap>>
    /\ UNCHANGED <<inferenceVars, debugVars, loadVars>>

\* const normalizedHeatmap = tf.tidy(...)
TidyNormalize ==
    /\ pc = "tidy2"
    /\ normalizedHeatmap' =
           NormalizedHeatmap(heatmap, inputTensor.shape[2], inputTensor.shape[3])
    /\ pc' = "tidy3"
    /\ UNCHANGED <<component, inputTensor, predictions, confidenceBoost, heatmap, result>>
    /\ UNCHANGED <<inferenceVars, debugVars, loadVars>>

\* coloredHeatmap, the ImageData loop, dispose, return imageData
ColorAndReturn ==
    /\ pc = "tidy3"
    /\ result' =
           [kind |-> "ImageData",
            data |-> IF component = "App" THEN ToImageData(normalizedHeatmap)
                     ELSE ToImageDataRefactored(normalizedHeatmap)]
    /\ pc' = "idle"
    /\ UNCHANGED <<component, inputTensor, predictions, confidenceBoost, heatmap,
                   normalizedHeatmap>>
    /\ UNCHANGED <<inferenceVars, debugVars, loadVars>>

\* canvas.getContext('2d') yields null: createImageData (App) or the
\* explicit check (AppRefactored) throws: catch
CatchNoContext(ctxOk) ==
    /\ pc = "tidy3"
    /\ result' = CatchResult(component, ctxOk)
    /\ pc' = "idle"
    /\ UNCHANGED <<component, inputTensor, predictions, confidenceBoost, heatmap,
                   normalizedHeatmap>>
    /\ UNCHANGED <<inferenceVars, debugVars, loadVars>>

Next ==
    \/ \E c \in Components, tensor \in InputTensors, preds \in ProbabilityVectors :
           Call(c, tensor, preds)
    \/ \E ctxOk \in BOOLEAN : CatchInvalidParameters(ctxOk)
    \/ TidyHeatmap
    \/ \E ctxOk \in BOOLEAN : CatchSqueeze(ctxOk)
    \/ TidyNormalize
    \/ ColorAndReturn
    \/ \E ctxOk \in BOOLEAN : CatchNoContext(ctxOk)

Spec == Init /\ [][Next]_vars

\* ------------------------------------------------------------------------
\* useDebugInfo: the rolling debug log
\* ------------------------------------------------------------------------

\* no call of generateGradCAM is being followed step by step
GradcamIdle ==
    /\ pc = "idle"
    /\ inputTensor = NoTensor
    /\ predictions = <<>>
    /\ confidenceBoost = 0
    /\ heatmap = NoMap
    /\ normalizedHeatmap = NoMap
    /\ result = NoResult

\* Array.prototype.slice(start): a negative start counts from the end, and
\* -0 is 0, the start of the array
Slice(array, start) ==
    LET len == Len(array)
        from == IF start < 0
                THEN (IF len + start > 0 THEN len + start ELSE 0)
                ELSE (IF start < len THEN start ELSE len)
    IN  SubSeq(array, from + 1, len)

\* the updater of addDebugInfo: [...prev.slice(-(maxItems - 1)), debugMessage]
AddDebugInfo(prev, limit, debugMessage) ==
    Slice(prev, 0 - (limit - 1)) \o <<debugMessage>>

\* the messages logged (the time stamp in front is left out)
DebugMessages == {"init", "ready", "loading"}

DebugInit ==
    /\ component = "AppRefactored"
    /\ GradcamIdle
    /\ InferenceIdle
    /\ LoadIdle
    /\ maxItems \in 1 .. MaxMaxItems
    /\ debugInfo = <<>>

\* addDebugInfo(message)
AddDebugInfoCall(message) ==
    /\ Len(debugInfo) < MaxLogLength
    /\ debugInfo' = AddDebugInfo(debugInfo, maxItems, message)
    /\ UNCHANGED <<component, gradcamVars, inferenceVars, loadVars, maxItems>>

\* clearDebugInfo()
ClearDebugInfo ==
    /\ debugInfo' = <<>>
    /\ UNCHANGED <<component, gradcamVars, inferenceVars, loadVars, maxItems>>

DebugNext ==
    \/ \E message \in DebugMessages : AddDebugInfoCall(message)
    \/ ClearDebugInfo

DebugSpec == DebugInit /\ [][DebugNext]_vars

\* ------------------------------------------------------------------------
\* runInference: what one request computes
\* ------------------------------------------------------------------------

\* the images a user can select; "broken" cannot be turned into pixels
Images == {"ramp", "spot", "broken"}

\* tf.browser.fromPixels(img) throws
PreprocessThrows(image) == image = "broken"

\* preprocessImage(img): fromPixels, resizeBilinear to [224, 224], div(255),
\* expandDims(0)
PreprocessImage(image) ==
    [shape |-> <<1, TargetSize, TargetSize, 3>>,
     data |-> IF image = "ramp" THEN Ramp(TargetSize, TargetSize)
              ELSE CentreSpot(TargetSize, TargetSize)]

\* what predictionResult.data() can hold: a well-formed score vector, one
\* with scores outside [0, 1] and a fourth class, one whose fourth class has
\* the highest score, an empty one
ClassifierOutputs ==
    { <<Dec(2, 10), Dec(6, 10), Dec(2, 10)>>,
      <<0 - Dec(2, 10), Dec(15, 10), Dec(3, 10), Dec(1, 10)>>,
      <<Dec(1, 10), Dec(2, 10), Dec(3, 10), Dec(9, 10)>>,
      <<>> }

JANKEN_LABELS == <<"Gu", "Choki", "Pa">>

\* the confidence stored for a score: Number(confidence) in App,
\* Math.max(0, Math.min(1, confidence)) in AppRefactored
StoredConfidence(c, confidence) ==
    IF c = "App" THEN confidence ELSE MathMax(0, MathMin(Scale, confidence))

\* predictionData.slice(0, 3).map(...): label and confidence per class
LabelledPredictions(c, predictionData) ==
    [i \in 1 .. Min2(Len(predictionData), Len(JANKEN_LABELS)) |->
        [label |-> JANKEN_LABELS[i],
         confidence |-> StoredConfidence(c, predictionData[i])]]

\* one element put into a list sorted by falling confidence, behind its
\* equals (Array.prototype.sort is stable)
RECURSIVE InsertByConfidence(_, _)
InsertByConfidence(sorted, x) ==
    IF sorted = <<>> THEN <<x>>
    ELSE IF Head(sorted).confidence >= x.confidence
         THEN <<Head(sorted)>> \o InsertByConfidence(Tail(sorted), x)
         ELSE <<x>> \o sorted

\* .sort((a, b) => b.confidence - a.confidence)
RECURSIVE SortByConfidence(_)
SortByConfidence(list) ==
    IF list = <<>> THEN <<>>
    ELSE InsertByConfidence(SortByConfidence(SubSeq(list, 1, Len(list) - 1)),
                            list[Len(list)])

\* const results: JankenPrediction[]
JankenPredictions(c, predictionData) ==
    SortByConfidence(LabelledPredictions(c, predictionData))

\* the tensors generateGradCAM holds when the canvas part starts
GradcamTensors == {"heatmap", "normalizedHeatmap", "coloredHeatmap"}

\* confidenceBoost of the first tidy of generateGradCAM(inputTensor, preds)
BoostOfCall(c, preds) ==
    IF c = "App" THEN ConfidenceBoost(preds) ELSE ConfidenceBoostRefactored(preds)

\* the ImageData generateGradCAM returns when nothing throws
GeneratedImageData(c, tensor, preds) ==
    LET boost == BoostOfCall(c, preds)
        raw == IF c = "App" THEN Heatmap(tensor, boost)
               ELSE HeatmapRefactored(tensor, boost)
        normalized == NormalizedHeatmap(raw, tensor.shape[2], tensor.shape[3])
    IN  IF c = "App" THEN ToImageData(normalized) ELSE ToImageDataRefactored(normalized)

\* the tensors preprocessImage can return
PreprocessedTensors == {PreprocessImage(image) : image \in {i \in Images : ~PreprocessThrows(i)}}

\* GeneratedImageData of every call runInference can make, as a table (the
\* comparison has the model checker tabulate it once and for all)
GeneratedImages ==
    LET table == [call \in Components \X PreprocessedTensors \X ClassifierOutputs |->
                     GeneratedImageData(call[1], call[2], call[3])]
    IN  IF table = table THEN table ELSE table

\* generateGradCAM(inputTensor, predictions) as one synchronous call: the
\* value returned, the tensors left alive, the pipeline stages completed,
\* the confidenceBoost it computed (0 when it threw before).
\* ctxOk: canvas.getContext('2d') gives a context; fallbackCtxOk: so does
\* the one of the catch block
GenerateGradCAM(c, tensor, preds, ctxOk, fallbackCtxOk) ==
    IF c = "AppRefactored" /\ ~ValidParameters(preds)
    THEN [result |-> CatchResult(c, fallbackCtxOk), leaked |-> {}, stages |-> <<>>,
          confidenceBoost |-> 0]
    ELSE IF ~CanSqueeze(tensor)
    THEN [result |-> CatchResult(c, fallbackCtxOk), leaked |-> {}, stages |-> <<>>,
          confidenceBoost |-> 0]
    ELSE IF ~ctxOk
    THEN [result |-> CatchResult(c, fallbackCtxOk), leaked |-> GradcamTensors,
          stages |-> <<"synthesize">>,
          confidenceBoost |-> BoostOfCall(c, preds)]
    ELSE [result |-> [kind |-> "ImageData", data |-> GeneratedImages[<<c, tensor, preds>>]],
          leaked |-> {},
          stages |-> <<"synthesize", "colorize">>,
          confidenceBoost |-> BoostOfCall(c, preds)]

\* ------------------------------------------------------------------------
\* runInference: the component as a state machine
\* ------------------------------------------------------------------------

InferenceInit ==
    /\ component \in Components
    /\ GradcamIdle
    /\ InferenceIdle
    /\ DebugIdle
    /\ LoadIdle

\* the request a call of runInference becomes: the first not made yet
IsNextRequest(r) ==
    /\ requests[r].pc = "notStarted"
    /\ \A q \in 1 .. r - 1 : requests[q].pc # "notStarted"

\* the result slot after setGradcamData(data): the canvas is rendered only
\* while gradcamData is not null
CanvasAfter(data) == IF data.kind = "null" THEN BlankCanvas ELSE canvas

\* reader.onload of handleImageUpload and handleDrop
SelectImage(image) ==
    /\ selectedImage' = image
    /\ predictionsState' = NoPredictions
    /\ gradcamData' = NullGradcam
    /\ canvas' = CanvasAfter(NullGradcam)
    /\ UNCHANGED <<component, gradcamVars, debugVars, loadVars, modelState, isInferring,
                   requests, liveTensors>>

\* the files a user can pick or drop: type is File.type, image what the
\* <img> shows when the data URL of the file is its src
Files ==
    { [type |-> "image/png", image |-> "ramp"],
      [type |-> "image/png", image |-> "spot"],
      [type |-> "image/png", image |-> "broken"],
      [type |-> "text/plain", image |-> "broken"] }

\* event.target.files, event.dataTransfer.files: only files[0] is looked at
FileLists == {<<>>} \cup {<<file>> : file \in Files}

\* a drop handler that takes any file for an image
AnyFileIsImage(file) == TRUE

\* file.type.startsWith('image/')
IsImageFile(file) == file.type = "image/png"

\* handleImageUpload(event) together with the onload of its FileReader:
\* between the two nothing of the component is touched, so the handler is
\* taken at the moment the read completes
HandleImageUpload(files) ==
    IF files = <<>>
    THEN UNCHANGED vars
    ELSE SelectImage(files[1].image)

\* handleDrop(event) together with the onload of its FileReader
HandleDrop(files) ==
    IF Len(files) > 0 /\ IsImageFile(files[1])
    THEN SelectImage(files[1].image)
    ELSE UNCHANGED vars

\* handleModelUpload, handlePresetModelLoad: setModelState(prev => ({ ...prev,
\* error: null }))
ClearModelError ==
    /\ modelState.error # "null"
    /\ modelState' = [modelState EXCEPT !.error = "null"]
    /\ UNCHANGED <<component, gradcamVars, debugVars, loadVars, selectedImage, isInferring,
                   predictionsState, gradcamData, requests, liveTensors, canvas>>

\* the model is loaded: setModelState({ model, isLoaded: true, error: null })
ModelLoadSucceeds ==
    /\ modelState' = [model |-> "model", isLoaded |-> TRUE, error |-> "null"]
    /\ UNCHANGED <<component, gradcamVars, debugVars, loadVars, selectedImage, isInferring,
                   predictionsState, gradcamData, requests, liveTensors, canvas>>

\* loading throws: setModelState({ model: null, isLoaded: false, error })
ModelLoadFails ==
    /\ modelState' = [model |-> "null", isLoaded |-> FALSE, error |-> "load failed"]
    /\ UNCHANGED <<component, gradcamVars, debugVars, loadVars, selectedImage, isInferring,
                   predictionsState, gradcamData, requests, liveTensors, canvas>>

\* the inference button never disabled
NeverDisabled == FALSE

\* <button onClick={runInference} disabled={isInferring}>: React renders
\* the state a click handler has set before the next event is handled, so
\* the attribute follows isInferring
ButtonDisabled == isInferring

\* the button is rendered and can be clicked
ButtonEnabled ==
    /\ modelState.isLoaded
    /\ selectedImage # "null"
    /\ ~ButtonDisabled

\* finally left out: isInferring stays set
IsInferringLeftSet == TRUE

\* finally { setIsInferring(false) }
IsInferringAfterFinally == FALSE

\* a failure that comes after predict has been called once more
FailedAfterPredict(request, message) ==
    [request EXCEPT !.pc = "ended", !.error = message, !.alert = message,
                    !.predictCalls = @ + 1]

\* a failure that is only logged
FailedSilently(request, message) ==
    [request EXCEPT !.pc = "ended", !.error = message]

\* catch of runInference: alert(...), then finally: the request has ended
Failed(request, message) ==
    [request EXCEPT !.pc = "ended", !.error = message, !.alert = message]

\* the requests once request r has been entered as entry: the locals of
\* the calls that have ended are dropped
Entered(r, entry) ==
    [q \in DOMAIN requests |->
        IF q = r THEN entry
        ELSE IF requests[q].pc = "ended" THEN Forgotten
        ELSE requests[q]]

\* a click on the button: runInference up to its first await
RunInference(r) ==
    /\ ButtonEnabled
    /\ IsNextRequest(r)
    /\ modelState.model # "null"
    /\ selectedImage # "null"
    /\ IF PreprocessThrows(selectedImage)
       THEN /\ requests' = Entered(r,
                   Failed([requests[r] EXCEPT !.image = selectedImage], "preprocess"))
            /\ isInferring' = IsInferringAfterFinally
            /\ UNCHANGED liveTensors
       ELSE /\ requests' = Entered(r,
                   [requests[r] EXCEPT !.pc = "awaitPredict", !.image = selectedImage,
                                       !.stages = <<"preprocess">>,
                                       !.predictCalls = @ + 1])
            /\ isInferring' = TRUE
            /\ liveTensors' = liveTensors \cup {<<r, "inputTensor">>}
    /\ UNCHANGED <<component, gradcamVars, debugVars, loadVars, modelState, selectedImage,
                   predictionsState, gradcamData, canvas>>

\* await modelState.model.predict(inputTensor) resolves: on to
\* await predictionResult.data()
PredictResolves(r, output) ==
    /\ requests[r].pc = "awaitPredict"
    /\ requests' = [requests EXCEPT ![r] =
           [@ EXCEPT !.pc = "awaitData", !.predictionResult = output]]
    /\ liveTensors' = liveTensors \cup {<<r, "predictionResult">>}
    /\ UNCHANGED <<component, gradcamVars, debugVars, loadVars, modelState, selectedImage,
                   isInferring, predictionsState, gradcamData, canvas>>

\* await modelState.model.predict(inputTensor) rejects: catch, finally
PredictRejects(r) ==
    /\ requests[r].pc = "awaitPredict"
    /\ requests' = [requests EXCEPT ![r] = Failed(@, "predict")]
    /\ isInferring' = IsInferringAfterFinally
    /\ UNCHANGED <<component, gradcamVars, debugVars, loadVars, modelState, selectedImage,
                   predictionsState, gradcamData, liveTensors, canvas>>

\* the value setGradcamData stores for what generateGradCAM returned: App
\* stores it whatever it is, AppRefactored only if it is not null
StoredGradcam(c, r, returned) ==
    IF c = "AppRefactored" /\ returned.kind = "null"
    THEN gradcamData
    ELSE [req |-> r, kind |-> returned.kind, data |-> returned.data]

\* await predictionResult.data() resolves: the rest of runInference
DataResolves(r, ctxOk, fallbackCtxOk) ==
    /\ requests[r].pc = "awaitData"
    /\ LET predictionData == requests[r].predictionResult
           generated == GenerateGradCAM(component, PreprocessImage(requests[r].image),
                                        predictionData, ctxOk, fallbackCtxOk)
           stored == StoredGradcam(component, r, generated.result)
       IN  /\ predictionsState' =
                  [req |-> r, results |-> JankenPredictions(component, predictionData)]
           /\ gradcamData' = stored
           /\ canvas' = CanvasAfter(stored)
           /\ liveTensors' =
                  (liveTensors \ {<<r, "predictionResult">>, <<r, "inputTensor">>})
                      \cup {<<r, name>> : name \in generated.leaked}
           /\ requests' = [requests EXCEPT ![r] =
                  [@ EXCEPT !.pc = "ended", !.predictionData = predictionData,
                            !.stages = @ \o <<"classify">> \o generated.stages,
                            !.returned = generated.result.kind,
                            !.confidenceBoost = generated.confidenceBoost]]
    /\ isInferring' = IsInferringAfterFinally
    /\ UNCHANGED <<component, gradcamVars, debugVars, loadVars, modelState, selectedImage>>

\* await predictionResult.data() rejects: catch, finally
DataRejects(r) ==
    /\ requests[r].pc = "awaitData"
    /\ requests' = [requests EXCEPT ![r] = Failed(@, "data")]
    /\ isInferring' = IsInferringAfterFinally
    /\ UNCHANGED <<component, gradcamVars, debugVars, loadVars, modelState, selectedImage,
                   predictionsState, gradcamData, liveTensors, canvas>>

\* drawHeatmap without its first check
DrawUnconditionally(data) == TRUE

\* drawHeatmap goes past its first check
DrawConditionsMet(data) == data.kind # "null"

\* naturalWidth and naturalHeight of the <img> showing an image, <<width,
\* height>>: larger than the working grid, smaller than it, 0 when the image
\* did not load
NaturalSize(image) ==
    IF image = "ramp" THEN <<TargetSize + 2, TargetSize + 1>>
    ELSE IF image = "spot" THEN <<SmallSize, SmallSize>>
    ELSE <<0, 0>>

\* imageRef.current.naturalWidth || 224
CanvasSide(natural) == IF natural = 0 THEN TargetSize ELSE natural

\* ctx.drawImage(imageRef.current, ...) throws: the image is in the broken state
DrawImageThrows(image) == PreprocessThrows(image)

\* an overlay drawn at full opacity
OverlayOpaque == Scale

\* ctx.globalAlpha = 0.4
OverlayAlpha == Dec(4, 10)

\* the canvas after drawHeatmap() has gone past its first check, image
\* being shown by imageRef.current and data being gradcamData: setting
\* canvas.width resets the context (globalAlpha 1.0), the image is drawn
\* over the whole canvas, then the 224 x 224 tempCanvas at globalAlpha 0.4,
\* and globalAlpha is set back to 1.0
DrawnCanvas(image, data) ==
    LET width == CanvasSide(NaturalSize(image)[1])
        height == CanvasSide(NaturalSize(image)[2])
    IN  IF DrawImageThrows(image)
        THEN [req |-> data.req, kind |-> "none", width |-> width, height |-> height,
              draws |-> <<>>, globalAlpha |-> Scale]
        ELSE [req |-> data.req, kind |-> data.kind, width |-> width, height |-> height,
              draws |->
                  << [source |-> image,
                      sourceWidth |-> NaturalSize(image)[1],
                      sourceHeight |-> NaturalSize(image)[2],
                      width |-> width, height |-> height, globalAlpha |-> Scale],
                     [source |-> "tempCanvas",
                      sourceWidth |-> TargetSize, sourceHeight |-> TargetSize,
                      width |-> width, height |-> height, globalAlpha |-> OverlayAlpha] >>,
              globalAlpha |-> Scale]

\* the effect on gradcamData, and handleImageLoad: drawHeatmap()
DrawHeatmap ==
    /\ DrawConditionsMet(gradcamData)
    /\ selectedImage # "null"
    /\ canvas # DrawnCanvas(selectedImage, gradcamData)
    /\ canvas' = DrawnCanvas(selectedImage, gradcamData)
    /\ requests' =
           [r \in DOMAIN requests |->
               IF /\ r = gradcamData.req
                  /\ requests[r].pc = "ended"
                  /\ ~DrawImageThrows(selectedImage)
               THEN [requests[r] EXCEPT !.stages = @ \o <<"composite">>]
               ELSE requests[r]]
    /\ UNCHANGED <<component, gradcamVars, debugVars, loadVars, modelState, selectedImage,
                   isInferring, predictionsState, gradcamData, liveTensors>>

InferenceNext ==
    \/ \E files \in FileLists : HandleImageUpload(files)
    \/ \E files \in FileLists : HandleDrop(files)
    \/ ClearModelError
    \/ ModelLoadSucceeds
    \/ ModelLoadFails
    \/ \E r \in 1 .. MaxRequests : RunInference(r)
    \/ \E r \in 1 .. MaxRequests, output \in ClassifierOutputs : PredictResolves(r, output)
    \/ \E r \in 1 .. MaxRequests : PredictRejects(r)
    \/ \E r \in 1 .. MaxRequests, ctxOk \in BOOLEAN, fallbackCtxOk \in BOOLEAN :
           DataResolves(r, ctxOk, fallbackCtxOk)
    \/ \E r \in 1 .. MaxRequests : DataRejects(r)
    \/ DrawHeatmap

InferenceSpec == InferenceInit /\ [][InferenceNext]_vars

\* the promise request r awaits settles: predict or data() resolves or rejects
PromiseSettles(r) ==
    \/ PredictRejects(r)
    \/ DataRejects(r)
    \/ \E output \in ClassifierOutputs : PredictResolves(r, output)
    \/ \E ctxOk \in BOOLEAN, fallbackCtxOk \in BOOLEAN : DataResolves(r, ctxOk, fallbackCtxOk)

\* predict and data() are promises of the backend: a pending one settles
InferenceFairSpec ==
    /\ InferenceSpec
    /\ WF_vars(\E r \in 1 .. MaxRequests : PromiseSettles(r))

\* ------------------------------------------------------------------------
\* handleModelUpload, handlePresetModelLoad: the model loads
\* ------------------------------------------------------------------------
\* Component App runs the handlers of src/App.tsx, component AppRefactored
\* those of useModelManagement.  The addDebugInfo callback the hook is given
\* writes the log followed in DebugSpec and is left out here.

\* the files of the model input: name up to the extension, and extension
ModelFiles ==
    { [name |-> "janken", extension |-> ".tflite"],
      [name |-> "model", extension |-> ".json"],
      [name |-> "notes", extension |-> ".txt"] }

\* event.target.files of the model input
ModelFileLists == {<<>>} \cup {<<file>> : file \in ModelFiles}

\* the presets handlePresetModelLoad can be given: fallbackPath is optional
PresetModels ==
    { [name |-> "janken_model.tflite", hasFallbackPath |-> TRUE],
      [name |-> "janken_model.tflite", hasFallbackPath |-> FALSE] }

\* how a fetch can settle: an ok response, a response that is not ok, a
\* rejection
FetchOutcomes == {"ok", "notOk", "throws"}

\* the message of the error a fetch that did not give an ok response ends in
FetchError(path, outcome) ==
    IF outcome = "notOk" THEN path \o " path failed: 404 Not Found"
    ELSE "Failed to fetch"

\* how loader.loadFromArrayBuffer can settle: the model, a header without
\* 'TFL', a rejection of tf.loadLayersModel
LoaderOutcomes == {"model", "invalidHeader", "loadLayersModelFails"}

\* the error loadFromArrayBuffer throws from its catch
LoaderError(outcome) ==
    "TFLite model could not be loaded: " \o
        (IF outcome = "invalidHeader" THEN "invalid TFLite file format"
         ELSE "Failed to fetch")

\* throw new Error(`... Public: ${publicError.message}, Fallback:
\* ${fallbackError.message}`)
BothPathsFailed(publicError, fallbackError) ==
    "both paths failed. Public: " \o publicError \o ", Fallback: " \o fallbackError

\* the load a call of a handler becomes: the first not asked for yet
IsNextLoad(l) ==
    /\ loads[l].pc = "notRequested"
    /\ \A k \in 1 .. l - 1 : loads[k].pc # "notRequested"

\* setModelState(prev => ({ ...prev, error: null }))
ErrorCleared(prev) == [prev EXCEPT !.error = "null"]

\* setModelState({ model, isLoaded: true, error: null })
LoadedState == [model |-> "model", isLoaded |-> TRUE, error |-> "null"]

\* a catch that only records the error and keeps the rest of the state
FailureKeepsModel(prev, message) == [prev EXCEPT !.error = message]

\* catch: setModelState({ model: null, isLoaded: false, error: message })
FailureState(prev, message) ==
    [model |-> "null", isLoaded |-> FALSE, error |-> message]

\* load l ends in its catch with message, started being what it was before
Fails(l, started, message) ==
    /\ loads' = [loads EXCEPT ![l] = [started EXCEPT !.pc = "failed", !.error = message]]
    /\ modelState' = FailureState(modelState, message)
    /\ modelFrom' = l
    /\ UNCHANGED liveModels

\* load l has its model and stores it: nothing is done about the model that
\* modelState held
Succeeds(l) ==
    /\ loads' = [loads EXCEPT ![l] = [@ EXCEPT !.pc = "loaded"]]
    /\ modelState' = LoadedState
    /\ modelFrom' = l
    /\ liveModels' = liveModels \cup {l}

\* load l goes on to its next await, started being what it is from then on
Awaits(l, started) ==
    /\ loads' = [loads EXCEPT ![l] = started]
    /\ UNCHANGED <<modelState, liveModels, modelFrom>>

\* what a load leaves alone
LoadFrame ==
    UNCHANGED <<component, gradcamVars, debugVars, selectedImage, isInferring,
                predictionsState, gradcamData, requests, liveTensors, canvas>>

\* handleModelUpload(event) up to its first await
HandleModelUpload(l, files) ==
    IF files = <<>>
    THEN UNCHANGED vars
    ELSE /\ IsNextLoad(l)
         /\ LET file == files[1]
                started == [loads[l] EXCEPT !.kind = "upload"]
            IN  IF file.extension = ".tflite"
                THEN /\ loads' = [loads EXCEPT ![l] = [started EXCEPT !.pc = "awaitArrayBuffer"]]
                     /\ modelState' = ErrorCleared(modelState)
                     /\ UNCHANGED <<liveModels, modelFrom>>
                ELSE IF file.extension = ".json"
                THEN /\ loads' = [loads EXCEPT ![l] = [started EXCEPT !.pc = "awaitGraphModel"]]
                     /\ modelState' = ErrorCleared(modelState)
                     /\ UNCHANGED <<liveModels, modelFrom>>
                ELSE Fails(l, started, "unsupported file format")
         /\ LoadFrame

\* await file.arrayBuffer() settles
FileArrayBufferSettles(l, resolves) ==
    /\ loads[l].pc = "awaitArrayBuffer"
    /\ IF resolves
       THEN Awaits(l, [loads[l] EXCEPT !.pc = "awaitLoader"])
       ELSE Fails(l, loads[l], "The file could not be read")
    /\ LoadFrame

\* await tf.loadGraphModel(modelUrl) settles
GraphModelSettles(l, resolves) ==
    /\ loads[l].pc = "awaitGraphModel"
    /\ IF resolves
       THEN Succeeds(l)
       ELSE Fails(l, loads[l], "Failed to parse model JSON")
    /\ LoadFrame

\* handlePresetModelLoad(presetModel) up to its first await: the hook
\* throws when there is no fallbackPath, and then fetches presetModel.path;
\* src/App.tsx fetches presetModel.path
HandlePresetModelLoad(l, presetModel) ==
    /\ IsNextLoad(l)
    /\ LET started == [loads[l] EXCEPT !.kind = "preset",
                                      !.hasFallbackPath = presetModel.hasFallbackPath]
       IN  IF component = "AppRefactored" /\ ~presetModel.hasFallbackPath
           THEN Fails(l, started, "no fallback path is set")
           ELSE /\ loads' = [loads EXCEPT ![l] =
                       [started EXCEPT !.pc = "awaitPublicFetch", !.fetches = <<"Public">>]]
                /\ modelState' = ErrorCleared(modelState)
                /\ UNCHANGED <<liveModels, modelFrom>>
    /\ LoadFrame

\* the public attempt of the hook has thrown message: catch (publicError),
\* fetch(presetModel.fallbackPath)
FallbackFetched(l, message) ==
    Awaits(l, [loads[l] EXCEPT !.pc = "awaitFallbackFetch", !.publicError = message,
                               !.fetches = @ \o <<"Fallback">>])

\* await fetch(presetModel.path) settles
PublicFetchSettles(l, outcome) ==
    /\ loads[l].pc = "awaitPublicFetch"
    /\ IF outcome = "ok"
       THEN Awaits(l, [loads[l] EXCEPT !.pc = "awaitPublicArrayBuffer"])
       ELSE IF component = "AppRefactored"
       THEN FallbackFetched(l, FetchError("Public", outcome))
       ELSE Fails(l, loads[l], FetchError("Preset", outcome))
    /\ LoadFrame

\* await response.arrayBuffer() of the public response settles; in the hook
\* the await is inside the try of the public attempt
PublicArrayBufferSettles(l, resolves) ==
    /\ loads[l].pc = "awaitPublicArrayBuffer"
    /\ IF resolves
       THEN Awaits(l, [loads[l] EXCEPT !.pc = "awaitLoader"])
       ELSE IF component = "AppRefactored"
       THEN FallbackFetched(l, "The response body could not be read")
       ELSE Fails(l, loads[l], "The response body could not be read")
    /\ LoadFrame

\* the fallback attempt has thrown message: catch (fallbackError), throw
\* the error naming both, catch of the handler
BothFailed(l, message) ==
    Fails(l, [loads[l] EXCEPT !.fallbackError = message],
          BothPathsFailed(loads[l].publicError, message))

\* await fetch(presetModel.fallbackPath) settles
FallbackFetchSettles(l, outcome) ==
    /\ loads[l].pc = "awaitFallbackFetch"
    /\ IF outcome = "ok"
       THEN Awaits(l, [loads[l] EXCEPT !.pc = "awaitFallbackArrayBuffer"])
       ELSE BothFailed(l, FetchError("Fallback", outcome))
    /\ LoadFrame

\* await response.arrayBuffer() of the fallback response settles
FallbackArrayBufferSettles(l, resolves) ==
    /\ loads[l].pc = "awaitFallbackArrayBuffer"
    /\ IF resolves
       THEN Awaits(l, [loads[l] EXCEPT !.pc = "awaitLoader"])
       ELSE BothFailed(l, "The response body could not be read")
    /\ LoadFrame

\* await loader.loadFromArrayBuffer(arrayBuffer) settles
LoaderSettles(l, outcome) ==
    /\ loads[l].pc = "awaitLoader"
    /\ IF outcome = "model"
       THEN Succeeds(l)
       ELSE Fails(l, loads[l], LoaderError(outcome))
    /\ LoadFrame

ModelLoadInit ==
    /\ component \in Components
    /\ GradcamIdle
    /\ InferenceIdle
    /\ DebugIdle
    /\ LoadIdle

ModelLoadNext ==
    \/ \E l \in 1 .. MaxLoads, files \in ModelFileLists : HandleModelUpload(l, files)
    \/ \E l \in 1 .. MaxLoads, resolves \in BOOLEAN : FileArrayBufferSettles(l, resolves)
    \/ \E l \in 1 .. MaxLoads, resolves \in BOOLEAN : GraphModelSettles(l, resolves)
    \/ \E l \in 1 .. MaxLoads, presetModel \in PresetModels :
           HandlePresetModelLoad(l, presetModel)
    \/ \E l \in 1 .. MaxLoads, outcome \in FetchOutcomes : PublicFetchSettles(l, outcome)
    \/ \E l \in 1 .. MaxLoads, resolves \in BOOLEAN : PublicArrayBufferSettles(l, resolves)
    \/ \E l \in 1 .. MaxLoads, outcome \in FetchOutcomes : FallbackFetchSettles(l, outcome)
    \/ \E l \in 1 .. MaxLoads, resolves \in BOOLEAN : FallbackArrayBufferSettles(l, resolves)
    \/ \E l \in 1 .. MaxLoads, outcome \in LoaderOutcomes : LoaderSettles(l, outcome)

ModelLoadSpec == ModelLoadInit /\ [][ModelLoadNext]_vars

\* ------------------------------------------------------------------------
\* Properties
\* ------------------------------------------------------------------------

\* the shape saliency synthesis expects: [1, 224, 224, 3]
ExpectedShape == <<1, TargetSize, TargetSize, 3>>

\* the first tidy has run: confidenceBoost and heatmap are set
HeatmapComputed == DOMAIN heatmap # {}

\* the second tidy has run
NormalizedComputed == DOMAIN normalizedHeatmap # {}

\* the call has returned
Returned == pc = "idle" /\ result.kind # "none"

\* the call has returned a heatmap (not null, not the error indicator)
ReturnedHeatmap == Returned /\ result.kind = "ImageData"

\* all pixels of the input tensor have the same colour
UniformInput == \A p, q \in DOMAIN inputTensor.data : inputTensor.data[p] = inputTensor.data[q]

\* C1: for every non-empty probability vector the confidence boost is
\* clamp(max(probabilities) * 2, 0.3, 1.0), never below 0.3 nor above 1.0
C1_BoostIsClamped ==
    (HeatmapComputed /\ predictions # <<>>) =>
        /\ confidenceBoost =
               ClipByValue(MulRat(MathMaxOf(Range(predictions)), 2, 1), Dec(3, 10), Scale)
        /\ confidenceBoost >= Dec(3, 10)
        /\ confidenceBoost <= Scale

\* C2: whenever synthesis returns a map, every value of the normalized
\* saliency map lies in [0, 1] and none is NaN or infinite
C2_NormalizedInUnitRange ==
    ReturnedHeatmap =>
        \A p \in DOMAIN normalizedHeatmap :
            /\ IsFinite(normalizedHeatmap[p])
            /\ normalizedHeatmap[p] >= 0
            /\ normalizedHeatmap[p] <= Scale

\* C3: for a spatially uniform input tensor the synthesizer returns the
\* fallback radial map max(0, 1 - distance / 80) around the centre (and so
\* the same map whatever the probability vector)
C3_UniformGivesFixedPattern ==
    (ReturnedHeatmap /\ UniformInput /\ inputTensor.shape = ExpectedShape) =>
        normalizedHeatmap = FixedPattern

\* C4: when the maximum of the luminance map is 0 the normalized luminance is
\* taken as 0, so the raw saliency map is all zeros and the zero-range
\* fallback branch is taken
C4_ZeroMaximumIsNotDivided ==
    (HeatmapComputed /\ MathMaxOf(Range(Grayscale(inputTensor))) = 0) =>
        /\ \A p \in DOMAIN heatmap : heatmap[p] = 0
        /\ NormalizedComputed => normalizedHeatmap = FixedPattern

\* C5: a call with an empty probability vector fails and produces no
\* saliency map and no heatmap
C5_EmptyProbabilitiesFail ==
    (Returned /\ predictions = <<>>) =>
        /\ result.kind # "ImageData"
        /\ ~NormalizedComputed

\* C6: a call with a tensor whose shape is not [1, 224, 224, 3] fails; the
\* tensor is never resized, truncated or cropped into a map
C6_ShapeMismatchFails ==
    (Returned /\ inputTensor.shape # ExpectedShape) =>
        /\ result.kind # "ImageData"
        /\ ~NormalizedComputed

\* C7: the colorizer writes red, green and blue bytes that are integers in
\* [0, 255] and an alpha byte that is an integer in [0, 200]
C7_BytesInRange ==
    result.kind = "ImageData" =>
        \A p \in DOMAIN result.data :
            /\ \A i \in 1 .. 3 : result.data[p][i] \in 0 .. 255
            /\ result.data[p][4] \in 0 .. 200

\* a heatmap of values in [0, 1] was coloured, under both extremes of the
\* transfer: a saturated red byte and a pixel that is not red at all
C7_Witness ==
    /\ ReturnedHeatmap
    /\ \A p \in DOMAIN normalizedHeatmap :
           normalizedHeatmap[p] >= 0 /\ normalizedHeatmap[p] <= Scale
    /\ \E p \in DOMAIN result.data : result.data[p][1] = 255 /\ result.data[p][4] = 200
    /\ \E p \in DOMAIN result.data : result.data[p][1] = 0 /\ result.data[p][3] > 0

\* the reference transfer of a value v in [0, 1]: the three bytes
ReferenceRGB(v) ==
    LET r == ClipByValue(MulRat(FSub(v, Dec(2, 10)), 2, 1), 0, Scale)
        g == ClipByValue(MulRat(v, 9, 5), 0, Scale)
        b == ClipByValue(FSub(Dec(12, 10), MulRat(v, 2, 1)), 0, Scale)
    IN  << MathRound(ClipByValue(MulRat(MulRat(r, 255, 1), 13, 10), 0, 255 * Scale)),
           MathRound(ClipByValue(MulRat(MulRat(g, 255, 1), 11, 10), 0, 255 * Scale)),
           MathRound(ClipByValue(MulRat(MulRat(b, 255, 1), 9, 10), 0, 255 * Scale)) >>

\* C8: for every value v in [0, 1] the colour written is the reference
\* transfer: r = clamp((v - 0.2) * 2.0), g = clamp(v * 1.8), b = clamp(1.2 -
\* v * 2.0), times 255, times the gains 1.3, 1.1, 0.9, clamped to [0, 255]
C8_ReferenceTransfer ==
    ReturnedHeatmap =>
        \A p \in DOMAIN normalizedHeatmap :
            (normalizedHeatmap[p] >= 0 /\ normalizedHeatmap[p] <= Scale) =>
                /\ result.data[p][1] = ReferenceRGB(normalizedHeatmap[p])[1]
                /\ result.data[p][2] = ReferenceRGB(normalizedHeatmap[p])[2]
                /\ result.data[p][3] = ReferenceRGB(normalizedHeatmap[p])[3]

\* C9: the alpha byte of each pixel is round(200 * min(1, (r + g + b) / 400))
\* of that pixel's bytes r, g, b
C9_DynamicAlpha ==
    ReturnedHeatmap =>
        \A p \in DOMAIN result.data :
            LET sum == result.data[p][1] + result.data[p][2] + result.data[p][3]
            IN  result.data[p][4] =
                    MathRound(MulRat(Min2(Scale, (sum * Scale) \div 400), 200, 1))

\* C20: the debug log is bounded: for every maxItems >= 1, after any
\* sequence of addDebugInfo and clearDebugInfo calls, the log holds at most
\* maxItems entries
C20_DebugLogBounded == Len(debugInfo) <= maxItems

\* the requests made so far whose locals are still there
Requests == 1 .. MaxRequests

\* request r has ended, in success or in failure
Ended(r) == requests[r].pc = "ended"

\* tensors of request r are alive
HoldsTensors(r) == \E entry \in liveTensors : entry[1] = r

\* C11: if preprocessing of the selected image fails, the request ends in
\* failure without ever calling predict, and no predictions or heatmap are
\* stored for that request
C11_PreprocessFailureStopsRequest ==
    \A r \in Requests :
        requests[r].error = "preprocess" =>
            /\ Ended(r)
            /\ requests[r].alert # "none"
            /\ requests[r].predictCalls = 0
            /\ requests[r].returned = "none"
            /\ predictionsState.req # r
            /\ gradcamData.req # r

\* a second request failed in preprocessing while the slot still holds what
\* the first one stored
C11_Witness ==
    /\ requests[2].error = "preprocess"
    /\ predictionsState.req = 1
    /\ gradcamData.kind = "ImageData"

\* the order of the stages of a request
StageOrder == <<"preprocess", "classify", "synthesize", "colorize", "composite">>

\* the place of a stage in StageOrder
StageIndex(stage) == CHOOSE i \in DOMAIN StageOrder : StageOrder[i] = stage

\* the stages came in the order of StageOrder
InStageOrder(stages) ==
    \A i, j \in DOMAIN stages : i < j => StageIndex(stages[i]) < StageIndex(stages[j])

\* every stage but compositing came after the stage before it
HasItsInput(stages) ==
    \A i \in DOMAIN stages :
        (stages[i] # "composite" /\ StageIndex(stages[i]) > 1) =>
            (i > 1 /\ stages[i - 1] = StageOrder[StageIndex(stages[i]) - 1])

\* C12: within one request the stages run in the order preprocess,
\* classify, synthesize, colorize, composite; no stage starts before the one
\* before it has produced its output, and a heatmap is composited only
\* after the request has stored it
C12_StagesInOrder ==
    /\ \A r \in Requests :
           /\ InStageOrder(requests[r].stages)
           /\ HasItsInput(requests[r].stages)
           /\ requests[r].pc = "awaitPredict" => requests[r].stages = <<"preprocess">>
           /\ requests[r].pc = "awaitData" => requests[r].stages = <<"preprocess">>
           /\ (\E i \in DOMAIN requests[r].stages : requests[r].stages[i] = "composite") =>
                  /\ Ended(r)
                  /\ requests[r].returned \in {"ImageData", "fallbackImageData"}
    /\ canvas.kind \in {"none", "ImageData", "fallbackImageData"}
    /\ canvas.kind # "none" => canvas.req \in Requests

\* a request went through all five stages
C12_Witness == \E r \in Requests : requests[r].stages = StageOrder

\* the requests whose predict or data() has not settled
InFlight == {r \in Requests : requests[r].pc \in {"awaitPredict", "awaitData"}}

\* C13: at most one classification is in flight at any time: while a request
\* is running (isInferring is true), no second runInference starts
C13_OneInFlight ==
    /\ Cardinality(InFlight) <= 1
    /\ InFlight # {} => isInferring

\* a second request is in flight, after the first one has ended
C13_Witness == requests[2].pc = "awaitPredict" /\ requests[1].pc = "forgotten"

\* C14: every tensor created for a request is released by the end of that
\* request, on every exit path
C14_TensorsReleased ==
    \A r \in Requests : requests[r].pc \in {"ended", "forgotten"} => ~HoldsTensors(r)

\* C15: a request, once started, always ends: isInferring eventually returns
\* to false, on success and on every failure path
C15_RequestEnds == isInferring ~> ~isInferring

\* a request has run and ended, and isInferring is false again
C15_Witness == ~isInferring /\ \E r \in Requests : Ended(r) /\ requests[r].predictCalls = 1

\* C16: a rejected predict call is never retried: each request calls predict
\* at most once, and a rejection ends the request in failure with the error
\* surfaced to the user
C16_NoRetry ==
    \A r \in Requests :
        /\ requests[r].predictCalls <= 1
        /\ requests[r].error = "predict" =>
               /\ Ended(r)
               /\ requests[r].predictCalls = 1
               /\ requests[r].alert = "predict"
               /\ requests[r].returned = "none"
               /\ predictionsState.req # r

\* predict was called and rejected
C16_Witness == \E r \in Requests : requests[r].error = "predict" /\ ~isInferring

\* heatmap generation failed in request r, after classification succeeded
GenerationFailed(r) == Ended(r) /\ requests[r].returned \in {"null", "fallbackImageData"}

\* C17: when heatmap generation fails after classification has succeeded,
\* the request ends with its predictions stored and with a visibly marked
\* fallback visualization in the result slot (while the slot still holds the
\* predictions of that request, it holds the fallback too)
C17_FallbackStored ==
    \A r \in Requests :
        (GenerationFailed(r) /\ predictionsState.req = r) =>
            /\ requests[r].error = "none"
            /\ gradcamData.req = r
            /\ gradcamData.kind = "fallbackImageData"

\* C18: after a request completes successfully the result slot holds that
\* request's output, and the stored predictions and heatmap always come
\* from the same request
C18_SlotHoldsOneRequest ==
    /\ gradcamData.kind # "null" => gradcamData.req = predictionsState.req
    /\ \A r \in Requests :
           (Ended(r) /\ requests[r].returned = "ImageData" /\ predictionsState.req = r) =>
               /\ predictionsState.results =
                      JankenPredictions(component, requests[r].predictionData)
               /\ gradcamData =
                      [req |-> r, kind |-> "ImageData",
                       data |-> GeneratedImages[<<component, PreprocessImage(requests[r].image),
                                                  requests[r].predictionData>>]]

\* a score is in [0, 1]
InUnitRange(score) == score >= 0 /\ score <= Scale

\* C19: every score returned by the classifier is clamped to [0, 1] before
\* it is interpreted: no stored confidence and no score used for the boost
\* factor lies outside [0, 1]
C19_ScoresClamped ==
    /\ \A i \in DOMAIN predictionsState.results :
           InUnitRange(predictionsState.results[i].confidence)
    /\ \A r \in Requests :
           requests[r].returned # "none" =>
               \A i \in DOMAIN requests[r].predictionData :
                   InUnitRange(requests[r].predictionData[i])

\* what preprocessing makes of a solid mid-gray image: a [1, 224, 224, 3]
\* tensor of one gray level
GrayTensor == [shape |-> ExpectedShape, data |-> Uniform(TargetSize, TargetSize, Gray)]

\* the midpoint of the working grid: (112, 112)
GridCentre == <<TargetSize \div 2, TargetSize \div 2>>

\* C22: for a solid mid-gray image passed through preprocessing and saliency
\* synthesis, the value of the resulting map at the centre (112, 112) is
\* strictly greater than its value at the corner (0, 0)
C22_CentreAboveCorner ==
    (ReturnedHeatmap /\ inputTensor = GrayTensor) =>
        normalizedHeatmap[GridCentre] > normalizedHeatmap[<<0, 0>>]

\* the map of a solid mid-gray image was synthesized by the refactored
\* copy; its centre is the maximum and its corner the minimum
C22_Witness ==
    /\ ReturnedHeatmap
    /\ inputTensor = GrayTensor
    /\ component = "AppRefactored"
    /\ normalizedHeatmap[GridCentre] = Scale
    /\ normalizedHeatmap[<<0, 0>>] = 0

\* the centre mask of the call, as the first tidy of the component built it
CenterWeightsOfCall ==
    IF component = "App"
    THEN CenterMask(inputTensor.shape[2], inputTensor.shape[3], confidenceBoost)
    ELSE CenterMaskRefactored(inputTensor.shape[2], inputTensor.shape[3], confidenceBoost)

\* boost * exp(-distance^2 / (2 * (r / 2)^2)) at <<y, x>>, r = min(height,
\* width) / 3, around (floor(height / 2), floor(width / 2))
GaussianFalloff(height, width, y, x, boost) ==
    FMul(GaussianWeight(height, width, y, x), boost)

\* C23: the weight of the radial attention mask at every coordinate is the
\* Gaussian falloff boost * exp(-distance^2 / (2 * (r / 2)^2)); it equals
\* boost at the centre and is strictly positive at every coordinate, also
\* those farther than r from the centre
C23_GaussianMask ==
    HeatmapComputed =>
        LET height == inputTensor.shape[2]
            width == inputTensor.shape[3]
            centerWeights == CenterWeightsOfCall
        IN  /\ \A p \in DOMAIN centerWeights :
                   /\ centerWeights[p] = GaussianFalloff(height, width, p[1], p[2], confidenceBoost)
                   /\ centerWeights[p] > 0
            /\ centerWeights[<<height \div 2, width \div 2>>] = confidenceBoost

\* C21: the compositor draws the original image into a surface of the
\* image's native resolution at full opacity, then the 224 x 224 heatmap
\* scaled to that resolution with a global alpha of exactly 0.4, and leaves
\* the global alpha of the surface at 1.0; it draws nothing when the
\* canvas, the image or the heatmap is missing
C21_CompositeAtFixedAlpha ==
    /\ canvas.globalAlpha = Scale
    /\ (gradcamData.kind = "null" \/ selectedImage = "null") => canvas.draws = <<>>
    /\ canvas.draws # <<>> =>
           LET original == canvas.draws[1]
               overlay == canvas.draws[2]
           IN  /\ Len(canvas.draws) = 2
               /\ original.source = selectedImage
               /\ <<canvas.width, canvas.height>> = NaturalSize(selectedImage)
               /\ <<original.width, original.height>> = <<canvas.width, canvas.height>>
               /\ original.globalAlpha = Scale
               /\ overlay.source = "tempCanvas"
               /\ <<overlay.sourceWidth, overlay.sourceHeight>> = <<TargetSize, TargetSize>>
               /\ <<overlay.width, overlay.height>> = <<canvas.width, canvas.height>>
               /\ overlay.globalAlpha = Dec(4, 10)

\* a heatmap was composited over an image whose native resolution is not
\* that of the heatmap
C21_Witness ==
    /\ canvas.draws # <<>>
    /\ canvas.kind = "ImageData"
    /\ canvas.width > TargetSize
    /\ canvas.height > TargetSize

\* C25: selecting a new image, by the file input or by dropping an image
\* file, clears the previous results: once the new image is set, predictions
\* is empty and gradcamData is null; dropping a file that is not an image,
\* and an empty selection, change nothing
C25_SelectionClearsResults ==
    [][/\ selectedImage' # selectedImage =>
              (predictionsState' = NoPredictions /\ gradcamData' = NullGradcam)
       /\ \A files \in FileLists :
              (files = <<>> \/ files[1].type = "text/plain") =>
                  /\ HandleDrop(files) => UNCHANGED vars
                  /\ (files = <<>> /\ HandleImageUpload(files)) => UNCHANGED vars]_vars

\* a request stored its results, and then another image was selected
C25_Witness ==
    /\ \E r \in Requests :
           /\ Ended(r)
           /\ requests[r].returned = "ImageData"
           /\ requests[r].image # selectedImage
    /\ predictionsState = NoPredictions
    /\ gradcamData = NullGradcam

\* C26: the stored predictions and heatmap always belong to the image that
\* is selected: under any interleaving of image selection with an inference
\* in flight, results computed for an image selected before are never
\* stored, or left stored, once a different image has been selected
C26_ResultsOfSelectedImage ==
    \A r \in Requests :
        (Ended(r) /\ (predictionsState.req = r \/ gradcamData.req = r)) =>
            requests[r].image = selectedImage

\* the first three scores of a classifier output
FirstScores(predictionData) ==
    SubSeq(predictionData, 1, Min2(3, Len(predictionData)))

\* C30: after a successful classification the stored predictions list has at
\* most 3 entries, built from the first 3 scores of the classifier output,
\* each entry keeping the label of its original index, ordered by
\* non-increasing confidence; the boost factor of the same request is
\* derived from those same scores
C30_PredictionsFromFirstScores ==
    \A r \in Requests :
        (Ended(r) /\ requests[r].returned # "none" /\ predictionsState.req = r) =>
            LET scores == FirstScores(requests[r].predictionData)
                results == predictionsState.results
            IN  /\ Len(results) <= 3
                /\ Len(results) = Len(scores)
                /\ \A i \in DOMAIN scores :
                       \E k \in DOMAIN results :
                           /\ results[k].label = JANKEN_LABELS[i]
                           /\ results[k].confidence \in
                                  {scores[i], MathMax(0, MathMin(Scale, scores[i]))}
                /\ \A j, k \in DOMAIN results :
                       j < k => results[j].confidence >= results[k].confidence
                /\ requests[r].returned = "ImageData" =>
                       requests[r].confidenceBoost = BoostOfCall(component, scores)

\* the model loads of a run
Loads == 1 .. MaxLoads

\* the model modelState holds is the one load l made
HoldsModelOf(l) == modelState.model # "null" /\ modelFrom = l

\* C24: whenever a loaded model is replaced, by a later successful load or
\* by a failed load that resets the model to null, the dispose of the
\* replaced model is invoked: no model that cannot be reached from
\* modelState still holds resources
C24_ReplacedModelReleased == \A l \in liveModels : HoldsModelOf(l)

\* C27: preset model loading tries the public path first and fetches the
\* fallback path only if the public fetch throws or returns a response that
\* is not ok; if both fail the load ends in the error state with a message
\* naming both failures; if the preset has no fallbackPath the load fails
\* before any fetch is issued
C27_PublicThenFallback ==
    \A l \in Loads :
        loads[l].kind = "preset" =>
            /\ loads[l].fetches \in {<<>>, <<"Public">>, <<"Public", "Fallback">>}
            /\ Len(loads[l].fetches) = 2 =>
                   loads[l].publicError \in
                       {FetchError("Public", "throws"), FetchError("Public", "notOk")}
            /\ loads[l].fallbackError # "none" =>
                   /\ loads[l].pc = "failed"
                   /\ loads[l].error =
                          BothPathsFailed(loads[l].publicError, loads[l].fallbackError)
            /\ ~loads[l].hasFallbackPath =>
                   /\ loads[l].pc = "failed"
                   /\ loads[l].fetches = <<>>

\* C28: in every reachable model state isLoaded is true exactly when model
\* is not null, and isLoaded true implies that error is null; every failed
\* load (extension not supported, invalid TFLite header, fetch or parse
\* failure) ends with model null, isLoaded false and an error that is not
\* null, whatever the state was before
C28_ModelStateConsistent ==
    [][/\ modelState'.isLoaded <=> modelState'.model # "null"
       /\ modelState'.isLoaded => modelState'.error = "null"
       /\ \A l \in Loads :
              (loads[l].pc # "failed" /\ loads'[l].pc = "failed") =>
                  /\ modelState'.model = "null"
                  /\ ~modelState'.isLoaded
                  /\ modelState'.error # "null"
                  /\ modelState'.error = loads'[l].error]_vars

\* a load failed while a model was loaded: the model is gone from modelState
C28_Witness ==
    \E l \in Loads :
        /\ loads[l].pc = "failed"
        /\ modelFrom = l
        /\ liveModels # {}
        /\ modelState.error = LoaderError("invalidHeader")

\* the load asked for last
LastLoad == CHOOSE l \in Loads : loads[l].pc # "notRequested" /\
                (\A k \in Loads : k > l => loads[k].pc = "notRequested")

\* C29: when two model loads overlap, the second being started before the
\* first has finished, the final model state reflects the load that was
\* asked for last, whatever the order in which the two complete
C29_LastLoadWins ==
    (/\ \A l \in Loads : loads[l].pc \in {"notRequested", "loaded", "failed"}
     /\ \E l \in Loads : loads[l].pc # "notRequested") =>
        /\ modelFrom = LastLoad
        /\ modelState =
               (IF loads[LastLoad].pc = "loaded" THEN LoadedState
                ELSE [model |-> "null", isLoaded |-> FALSE, error |-> loads[LastLoad].error])

====
